---- MODULE Spec2Model ----
(***************************************************************************)
(* A model of the storage core of acorn (repository nicholas-roether/tome): *)
(* the page cache, the XOR-diff transaction manager with its write-ahead    *)
(* log, and the before/after-image recovery manager.                        *)
(*                                                                          *)
(* The module holds several specifications over one set of variables; each  *)
(* specification moves only the variables of the component it is about and  *)
(* leaves the others at their initial value.                                *)
(*   SpecDiff      Transaction::generate_diff as a pure function            *)
(*   SpecCache     PageCache with a storage that may fail                   *)
(*   SpecCacheOk   PageCache with a storage that never fails                *)
(*   SpecRecovery  RecoveryManager over the WALs its own appenders produce  *)
(*   SpecTx        TransactionManager / Transaction over cache, WAL, crash  *)
(***************************************************************************)
EXTENDS Naturals, Integers, Sequences, FiniteSets, TLC

\* ------------------------------------------------------------------ bounds
\* Largest byte value of the model (a real byte ranges over 0..255).
MaxByte == 1
\* Length of the byte arrays given to generate_diff in SpecDiff.
DiffLen == 3
\* Bytes of a page (page_size; the real range is 512..32768).
PageSize == 2
\* Pages of the one segment the model accesses: PageId (0, 1) .. (0, NumPages).
NumPages == 3
\* Largest `length` given to PageCache::new.
MaxCapacity == 2
\* Storage errors (failed read_page or write_page calls) in one run.
MaxFailures == 1
\* Records the WAL of SpecRecovery holds at most.
MaxWal == 4
\* Pages the transactions of SpecRecovery write: (0, 1) .. (0, RecPages).
RecPages == 2
\* Transactions that exist at the same time in SpecTx (one thread each).
MaxTx == 2
\* Pages the transactions of SpecTx write: (0, 1) .. (0, TxPages).
TxPages == 2
\* Records the WAL of SpecTx holds at most.
MaxTxWal == 3
\* begin() calls on one TransactionManager in SpecTx.
MaxTid == 2
\* Crashes of the process in SpecTx.
MaxRestarts == 1
\* PageCache calls of one run of SpecCacheLog.
MaxCalls == 4
\* SegmentAllocManager::MAX_NUM_PAGES (u16::MAX in the code).
MAX_NUM_PAGES == 4
\* Length of FreelistPage::items (derived from page_size in the code).
ItemsLen == 2
\* Failed PageRwManager calls in one run of SpecAlloc.
MaxAllocFailures == 1
\* SegmentAllocManager::new calls over one segment after the first.
MaxNews == 2
\* Threads that call read_page / write_page on one PageCache in SpecCacheRace.
MaxThreads == 2

Bytes == 0 .. MaxByte
PageIds == 1 .. NumPages
\* The contents a page can have.
PageVals == [1 .. PageSize -> Bytes]
ZeroPage == [i \in 1 .. PageSize |-> 0]
\* page.fill(b), as the tests store through a write guard.
Fill(b) == [i \in 1 .. PageSize |-> b]
Fills == {Fill(b) : b \in Bytes}
\* What the storage holds before the first call: a different page per id.
InitStorage == [p \in PageIds |->
                  [i \in 1 .. PageSize |-> IF i = 1 THEN p % (MaxByte + 1) ELSE 0]]
\* Option::None where the model holds a page id (page ids start at 1).
NoPage == 0

\* ------------------------------------------------------- helper operators
Min(a, b) == IF a <= b THEN a ELSE b

\* Bitwise exclusive or of two naturals (u8 ^ u8).
RECURSIVE Xor(_, _)
Xor(a, b) ==
    IF a = 0 THEN b
    ELSE IF b = 0 THEN a
    ELSE (((a % 2) + (b % 2)) % 2) + (2 * Xor(a \div 2, b \div 2))

\* ---------------------------------------------- Transaction::generate_diff
\* One iteration of the loop of generate_diff, at 0-based index i.  The loop
\* state is [buf, start_index, end_index, has_started].
DiffStep(st, new, i) ==
    IF st.buf[i + 1] = new[i + 1]
    THEN IF ~st.has_started
         THEN [st EXCEPT !.start_index = i, !.end_index = i + 1]
         ELSE st
    ELSE [st EXCEPT !.has_started = TRUE,
                    !.buf[i + 1] = Xor(st.buf[i + 1], new[i + 1]),
                    !.end_index = i + 1]

RECURSIVE DiffLoop(_, _, _, _)
DiffLoop(st, new, i, n) ==
    IF i >= n THEN st ELSE DiffLoop(DiffStep(st, new, i), new, i + 1, n)

\* generate_diff(buf, new): the pair (start_index, &buf[start_index..end_index]).
generate_diff(buf, new) ==
    LET st == DiffLoop([buf |-> buf, start_index |-> 0, end_index |-> 0,
                        has_started |-> FALSE],
                       new, 0, Min(Len(buf), Len(new)))
    IN [diff_start |-> st.start_index,
        diff |-> SubSeq(st.buf, st.start_index + 1, st.end_index)]

\* for (byte, diff) in page.iter_mut().skip(diff_start).zip(diff.iter()) { *byte ^= *diff }
apply_diff(page, diff_start, diff) ==
    [i \in 1 .. Len(page) |->
        IF i > diff_start /\ i - diff_start <= Len(diff)
        THEN Xor(page[i], diff[i - diff_start])
        ELSE page[i]]

\* page[0..data.len()].copy_from_slice(data), generalised to a start offset.
\* A copy that leaves the page as it was.
copy_from_slice_Nothing(page, start, data) == page

copy_from_slice(page, start, data) ==
    [i \in 1 .. Len(page) |->
        IF i > start /\ i - start <= Len(data)
        THEN data[i - start]
        ELSE page[i]]

\* ------------------------------------------------------------------ state
VARIABLES
    \* SpecDiff: the inputs of generate_diff and what came of them
    d_old, d_new, d_out, d_page, d_pc,
    \* PageCache: CacheState {manager, map, dirty}, the PageBuffer and the storage
    capacity, map, dirty, manager, allocated, frames, storage,
    \* what the last PageCache call returned, and whether the process aborted
    cache_result, panicked,
    \* how many storage calls have failed so far
    failures,
    \* per page, the bytes most recently stored through a write guard
    latest,
    \* RecoveryManager: the WAL, the pages seen through the PageCacheApi, the
    \* transactions live in this run of the process, and whether recover()
    \* has just returned
    r_wal, r_pages, r_live, r_pc,
    \* TransactionManager: State {wal, seq_counter} and tid_counter; the
    \* records of the WAL that flush() has made durable
    tm_wal, wal_flushed, seq_counter, tid_counter,
    \* the transactions, one per thread: state, tid, locks (page -> frame of
    \* the held write guard), and the bytes each page held at its first write
    txs,
    \* the thread that waits for a frame lock inside PageCache::access or
    \* flush, holding the cache's state mutex
    waiting,
    \* what the last call on the transaction manager returned
    tx_result,
    \* per page, the data of the last transaction whose commit() returned Ok,
    \* and the tids begin() has returned, in order, over all runs of the process
    committed, tids_used,
    \* how often the process crashed and was started again
    restarts,
    \* the PageCache calls made since PageCache::new, in order; the number of
    \* storage.write_page calls since then; the (page, bytes) of the
    \* storage.write_page calls of the last PageCache call; and dirty as it
    \* was before that call
    calls, sw_total, sw_last, dirty_before,
    \* the last read() or write() call that returned, with the bytes read or
    \* written; per thread, the number of write() calls its transaction has
    \* made and, per page, the data of its last write() to the page
    tx_call, writes_done, tx_wrote,
    \* SegmentAllocManager: the segment's header page and its other pages
    \* seen as FreelistPage, the alloc_lock, what the last call returned, the
    \* pages in use (handed out and not freed), the number of failed
    \* PageRwManager calls and of re-creations of the manager, and the
    \* header, pages and pages in use as they were before the last call
    header, fl_pages, alloc_lock, alloc_result, pages_out, alloc_failures,
    alloc_news, alloc_before,
    \* per thread inside PageCache::read_page / write_page: where it is
    \* (idle, access() has returned the index, the guard is obtained), the
    \* page asked for, whether for writing, the index access() returned, and
    \* the page whose bytes the frame held when the guard was obtained
    cthreads,
    \* the write() call that has read its page and has not yet called
    \* track_write: its thread, page, data and the bytes read
    mid_write

diffVars == <<d_old, d_new, d_out, d_page, d_pc>>
cacheVars == <<capacity, map, dirty, manager, allocated, frames, storage,
               cache_result, panicked, failures, latest>>
recVars == <<r_wal, r_pages, r_live, r_pc>>
txVars == <<tm_wal, wal_flushed, seq_counter, tid_counter, txs, waiting,
            tx_result, committed, tids_used, restarts>>
logVars == <<calls, sw_total, sw_last, dirty_before>>
txLogVars == <<tx_call, writes_done, tx_wrote>>
allocVars == <<header, fl_pages, alloc_lock, alloc_result, pages_out,
               alloc_failures, alloc_news, alloc_before>>
raceVars == <<cthreads>>
midVars == <<mid_write>>
vars == <<diffVars, cacheVars, recVars, txVars, logVars, txLogVars, allocVars,
          raceVars, midVars>>

\* --------------------------------------------------------------- PageCache
\* The cache as one value, for the operators that compute a call's effect.
CacheSt == [map |-> map, dirty |-> dirty, manager |-> manager,
            allocated |-> allocated, frames |-> frames, storage |-> storage]

Slots == 0 .. (capacity - 1)

RemoveFromSeq(s, x) == SelectSeq(s, LAMBDA y : y # x)

\* CacheManager::access: the touched page moves to the MRU end.
manager_access(m, page_id) == Append(RemoveFromSeq(m, page_id), page_id)

\* reclaim() choosing the second least recently used page.
manager_reclaim_Second(m) ==
    IF m = <<>> THEN NoPage ELSE IF Len(m) = 1 THEN m[1] ELSE m[2]

\* CacheManager::reclaim: the page at the LRU end, none iff empty.
manager_reclaim(m) == IF m = <<>> THEN NoPage ELSE Head(m)

\* has_space() of a buffer that offers its first frame only.
has_space_OneFrame(st) == st.allocated = {}

\* PageBuffer::has_space
has_space(st) == st.allocated # Slots

\* PageBuffer::allocate_page: a free frame (the lowest one).
allocate_page(st) == CHOOSE i \in Slots \ st.allocated :
                        \A j \in Slots \ st.allocated : i <= j

\* map.remove(&page_id)
MapRemove(m, page_id) == [p \in (DOMAIN m) \ {page_id} |-> m[p]]

\* map.insert(page_id, index)
MapInsert(m, page_id, index) ==
    [p \in (DOMAIN m) \cup {page_id} |-> IF p = page_id THEN index ELSE m[p]]

Outcome(st, res, index, victim) ==
    [st |-> st, res |-> res, index |-> index, victim |-> victim]

\* access(), from the frame allocated for page_id on: take the frame's write
\* lock, read the page from storage into it, insert it into map.
AccessLoad(st, page_id, index, victim, ld_ok, locked) ==
    IF index \in locked
    THEN Outcome(st, "blocked_load", index, victim)
    ELSE IF ~ld_ok
    THEN Outcome(st, "err", index, victim)
    ELSE Outcome([st EXCEPT !.frames[index] = st.storage[page_id],
                            !.map = MapInsert(st.map, page_id, index)],
                 "ok", index, victim)

\* access(), from buffer.allocate_page() on.
AccessAllocate(st, page_id, victim, ld_ok, locked) ==
    LET index == allocate_page(st)
    IN AccessLoad([st EXCEPT !.allocated = st.allocated \cup {index}],
                  page_id, index, victim, ld_ok, locked)

\* AccessEvict with the write-back of a dirty victim left out.
AccessEvict_NoWriteBack(st, page_id, victim, index, wb_ok, ld_ok, locked) ==
    AccessAllocate([st EXCEPT !.dirty = st.dirty \ {victim},
                              !.allocated = st.allocated \ {index}],
                   page_id, victim, ld_ok, locked)

\* access(), after map.remove(&reclaimed_page) returned index: write the
\* victim back if it is dirty, free its frame, then load page_id.
AccessEvict(st, page_id, victim, index, wb_ok, ld_ok, locked) ==
    IF victim \in st.dirty /\ index \in locked
    THEN Outcome(st, "blocked_wb", index, victim)
    ELSE IF victim \in st.dirty /\ ~wb_ok
    THEN Outcome(st, "err", index, victim)
    ELSE LET wb == IF victim \in st.dirty
                   THEN [st EXCEPT !.storage[victim] = st.frames[index],
                                   !.dirty = st.dirty \ {victim}]
                   ELSE st
         IN AccessAllocate([wb EXCEPT !.allocated = wb.allocated \ {index}],
                           page_id, victim, ld_ok, locked)

\* PageCache::access(page_id, dirty).  wb_ok and ld_ok say whether the
\* storage's write_page and read_page succeed; locked are the frames whose
\* lock is held by a guard.  The outcome's res is "ok" (index is the frame),
\* "err" (a storage error was returned), "panic" (an expect() failed), or
\* "blocked_wb" / "blocked_load" (the call waits for a frame lock, holding
\* the state mutex).
access(st, page_id, dirty_flag, wb_ok, ld_ok, locked) ==
    LET s1 == [st EXCEPT !.manager = manager_access(st.manager, page_id),
                         !.dirty = IF dirty_flag THEN st.dirty \cup {page_id}
                                   ELSE st.dirty]
    IN IF page_id \in DOMAIN s1.map
       THEN Outcome(s1, "ok", s1.map[page_id], NoPage)
       ELSE IF has_space(s1)
       THEN AccessAllocate(s1, page_id, NoPage, ld_ok, locked)
       ELSE LET victim == manager_reclaim(s1.manager)
            IN IF victim = NoPage \/ victim \notin DOMAIN s1.map
               THEN Outcome([s1 EXCEPT !.manager =
                                IF victim = NoPage THEN s1.manager
                                ELSE Tail(s1.manager)],
                            "panic", 0, victim)
               ELSE AccessEvict([s1 EXCEPT !.manager = Tail(s1.manager),
                                           !.map = MapRemove(s1.map, victim)],
                                page_id, victim, s1.map[victim],
                                wb_ok, ld_ok, locked)


\* The cache variables take the values of the state st.
SetCache(st) ==
    /\ map' = st.map
    /\ dirty' = st.dirty
    /\ manager' = st.manager
    /\ allocated' = st.allocated
    /\ frames' = st.frames
    /\ storage' = st.storage

CallResult(op, page_id, res, data, victim) ==
    [op |-> op, page_id |-> page_id, res |-> res, data |-> data,
     victim |-> victim]

\* PageCache::new(storage, length)
CacheInit ==
    /\ capacity \in 1 .. MaxCapacity
    /\ map = [p \in {} |-> 0]
    /\ dirty = {}
    /\ manager = <<>>
    /\ allocated = {}
    /\ frames = [i \in Slots |-> ZeroPage]
    /\ storage = InitStorage
    /\ cache_result = CallResult("new", NoPage, "ok", ZeroPage, NoPage)
    /\ panicked = FALSE
    /\ failures = 0
    /\ latest = [p \in {} |-> ZeroPage]

\* Which storage call of a PageCache call fails: none, the write-back of an
\* evicted page ("wb"), or the load of the requested page ("ld").
FailModes == {"none", "wb", "ld"}

\* The storage fails as fail says, and the call met that failure.
Fails(fail, res) ==
    /\ fail # "none" => (failures < MaxFailures /\ res = "err")
    /\ failures' = IF fail = "none" THEN failures ELSE failures + 1

\* cache.read_page(page_id), the guard read and dropped.
ReadPage(page_id, fail) ==
    /\ ~panicked
    /\ LET o == access(CacheSt, page_id, FALSE, fail # "wb", fail # "ld", {})
       IN /\ Fails(fail, o.res)
          /\ SetCache(o.st)
          /\ panicked' = (o.res = "panic")
          /\ cache_result' =
                CallResult("read_page", page_id, o.res,
                           IF o.res = "ok" THEN o.st.frames[o.index]
                           ELSE ZeroPage,
                           o.victim)
    /\ UNCHANGED <<capacity, latest>>

\* cache.write_page(page_id), the guard filled with data and dropped.
WritePage(page_id, data, fail) ==
    /\ ~panicked
    /\ LET o == access(CacheSt, page_id, TRUE, fail # "wb", fail # "ld", {})
       IN /\ Fails(fail, o.res)
          /\ SetCache(IF o.res = "ok"
                      THEN [o.st EXCEPT !.frames[o.index] = data]
                      ELSE o.st)
          /\ panicked' = (o.res = "panic")
          /\ cache_result' =
                CallResult("write_page", page_id, o.res, ZeroPage, o.victim)
          /\ latest' = IF o.res = "ok"
                       THEN [p \in (DOMAIN latest) \cup {page_id} |->
                                IF p = page_id THEN data ELSE latest[p]]
                       ELSE latest
    /\ UNCHANGED capacity

\* The storage after flush() wrote the frames of the pages in done.
FlushWrites(done) ==
    [p \in PageIds |-> IF p \in done THEN frames[map[p]] ELSE storage[p]]

\* flush() without dirty.clear().
FlushOk_KeepDirty ==
    /\ ~panicked
    /\ dirty \subseteq DOMAIN map
    /\ storage' = FlushWrites(dirty)
    /\ cache_result' = CallResult("flush", NoPage, "ok", ZeroPage, NoPage)
    /\ UNCHANGED <<capacity, map, dirty, manager, allocated, frames, panicked,
                   failures, latest>>

\* cache.flush() returning Ok: every dirty page written, dirty cleared.
FlushOk ==
    /\ ~panicked
    /\ dirty \subseteq DOMAIN map
    /\ storage' = FlushWrites(dirty)
    /\ dirty' = {}
    /\ cache_result' = CallResult("flush", NoPage, "ok", ZeroPage, NoPage)
    /\ UNCHANGED <<capacity, map, manager, allocated, frames, panicked,
                   failures, latest>>

\* cache.flush() returning the storage error of writing page q, after the
\* pages in done were written (the dirty set is iterated in any order).
FlushErr(q, done) ==
    /\ ~panicked
    /\ q \in dirty /\ q \in DOMAIN map
    /\ done \subseteq (dirty \cap DOMAIN map) \ {q}
    /\ failures < MaxFailures
    /\ failures' = failures + 1
    /\ storage' = FlushWrites(done)
    /\ cache_result' = CallResult("flush", q, "err", ZeroPage, NoPage)
    /\ UNCHANGED <<capacity, map, dirty, manager, allocated, frames, panicked,
                   latest>>

\* cache.flush() failing map.get(&dirty_page).unwrap() at page q.
FlushPanic(q, done) ==
    /\ ~panicked
    /\ q \in dirty /\ q \notin DOMAIN map
    /\ done \subseteq dirty \cap DOMAIN map
    /\ storage' = FlushWrites(done)
    /\ panicked' = TRUE
    /\ cache_result' = CallResult("flush", q, "panic", ZeroPage, NoPage)
    /\ UNCHANGED <<capacity, map, dirty, manager, allocated, frames, failures,
                   latest>>


\* --------------------------------------------------------- RecoveryManager
RecPageIds == 1 .. RecPages

\* wal::Item: ItemInfo {tid, seq} and ItemData (Write {page_id, start,
\* before, after}, Commit or Cancel).
WriteItem(tid, seq, page_id, start, before, after) ==
    [kind |-> "Write", tid |-> tid, seq |-> seq, page_id |-> page_id,
     start |-> start, before |-> before, after |-> after]

MarkItem(kind, tid, seq) ==
    [kind |-> kind, tid |-> tid, seq |-> seq, page_id |-> NoPage,
     start |-> 0, before |-> <<>>, after |-> <<>>]

\* RecoveryManager::apply_write over a cache that holds every page.
apply_write(pages, page_id, start, data) ==
    [pages EXCEPT ![page_id] = copy_from_slice(pages[page_id], start, data)]

\* Wal::retrace_transaction(seq): the positions of the records of the
\* transaction of record seq, from seq backward to its earliest one.
RECURSIVE Retrace(_, _, _)
Retrace(wal, tid, i) ==
    IF i = 0 THEN <<>>
    ELSE IF wal[i].tid = tid THEN <<i>> \o Retrace(wal, tid, i - 1)
    ELSE Retrace(wal, tid, i - 1)

retrace_transaction(wal, seq) ==
    IF seq \in 1 .. Len(wal) THEN Retrace(wal, wal[seq].tid, seq) ELSE <<>>

\* The loop of revert_from over the retraced positions.
RECURSIVE RevertItems(_, _, _)
RevertItems(wal, idx, pages) ==
    IF idx = <<>> THEN pages
    ELSE LET item == wal[Head(idx)]
         IN RevertItems(wal, Tail(idx),
                        IF item.kind = "Write"
                        THEN apply_write(pages, item.page_id, item.start,
                                         item.before)
                        ELSE pages)

\* A revert_from that restores nothing.
revert_from_Nothing(wal, seq, pages) == pages

\* RecoveryManager::revert_from(seq)
revert_from(wal, seq, pages) ==
    RevertItems(wal, retrace_transaction(wal, seq), pages)

\* revert_from for each seq of a sequence, in its order.
RECURSIVE RevertAll(_, _, _)
RevertAll(wal, seqs, pages) ==
    IF seqs = <<>> THEN pages
    ELSE RevertAll(wal, Tail(seqs), revert_from(wal, Head(seqs), pages))

\* The forward pass of fast_forward from record i on; st is
\* [open_transactions, revert, pages].
RECURSIVE FastForwardLoop(_, _, _)
FastForwardLoop(wal, i, st) ==
    IF i > Len(wal) THEN st
    ELSE LET item == wal[i]
             ins == MapInsert(st.open_transactions, item.tid, item.seq)
         IN FastForwardLoop(wal, i + 1,
              IF item.kind = "Write"
              THEN [st EXCEPT !.open_transactions = ins,
                              !.pages = apply_write(st.pages, item.page_id,
                                                    item.start, item.after)]
              ELSE IF item.kind = "Commit"
              THEN [st EXCEPT !.open_transactions = MapRemove(ins, item.tid)]
              ELSE [st EXCEPT !.open_transactions = MapRemove(ins, item.tid),
                              !.revert = st.revert \cup {ins[item.tid]}])

\* The orders in which a HashSet or HashMap with the elements S is iterated.
Orders(S) ==
    {s \in [1 .. Cardinality(S) -> S] :
        \A i, j \in 1 .. Cardinality(S) : i # j => s[i] # s[j]}

\* RecoveryManager::fast_forward, its revert set iterated in revert_order.
fast_forward(wal, pages, revert_order) ==
    LET st == FastForwardLoop(wal, 1,
                 [open_transactions |-> [t \in {} |-> 0], revert |-> {},
                  pages |-> pages])
    IN [st EXCEPT !.pages = RevertAll(wal, revert_order, st.pages)]

\* The seqs fast_forward reverts from, and those recover() reverts from.
RevertSeqs(wal) ==
    FastForwardLoop(wal, 1, [open_transactions |-> [t \in {} |-> 0],
                             revert |-> {}, pages |-> r_pages]).revert

OpenSeqs(wal) ==
    LET open == FastForwardLoop(wal, 1,
                    [open_transactions |-> [t \in {} |-> 0], revert |-> {},
                     pages |-> r_pages]).open_transactions
    IN {open[t] : t \in DOMAIN open}

\* RecoveryManager::recover
recover(wal, pages, revert_order, open_order) ==
    RevertAll(wal, open_order, fast_forward(wal, pages, revert_order).pages)

\* The tids with a record in the WAL, and the next tid and seq handed out.
WalTids(wal) == {wal[i].tid : i \in 1 .. Len(wal)}
FreshTid(wal) == Cardinality(WalTids(wal))
NextSeq(wal) == Len(wal) + 1

\* The pages a live transaction has written: it holds their write guards.
PagesOf(wal, tid) ==
    {wal[i].page_id : i \in {j \in 1 .. Len(wal) :
                                wal[j].tid = tid /\ wal[j].kind = "Write"}}

RecIdle ==
    /\ r_wal = <<>>
    /\ r_pages = [p \in RecPageIds |-> ZeroPage]
    /\ r_live = {}
    /\ r_pc = "idle"

RecInit ==
    /\ r_wal = <<>>
    /\ r_pages = [p \in RecPageIds |-> ZeroPage]
    /\ r_live = {}
    /\ r_pc = "running"

\* A transaction writes data at page[start..]: track_write appends the Write
\* record with the range's before and after image, and the bytes are stored
\* through the transaction's write guard of the page.
TrackWrite(tid, page_id, start, data) ==
    /\ r_pc # "idle"
    /\ Len(r_wal) < MaxWal
    /\ tid \in r_live \cup {FreshTid(r_wal)}
    /\ \A t \in r_live \ {tid} : page_id \notin PagesOf(r_wal, t)
    /\ start + Len(data) <= PageSize
    /\ r_wal' = Append(r_wal,
                  WriteItem(tid, NextSeq(r_wal), page_id, start,
                            SubSeq(r_pages[page_id], start + 1,
                                   start + Len(data)),
                            data))
    /\ r_pages' = apply_write(r_pages, page_id, start, data)
    /\ r_live' = r_live \cup {tid}
    /\ r_pc' = "running"

\* RecoveryManager::commit_transaction
CommitTransaction(tid) ==
    /\ r_pc # "idle"
    /\ Len(r_wal) < MaxWal
    /\ tid \in r_live
    /\ r_wal' = Append(r_wal, MarkItem("Commit", tid, NextSeq(r_wal)))
    /\ r_live' = r_live \ {tid}
    /\ r_pc' = "running"
    /\ UNCHANGED r_pages

\* RecoveryManager::cancel_transaction
CancelTransaction(tid) ==
    /\ r_pc # "idle"
    /\ Len(r_wal) < MaxWal
    /\ tid \in r_live
    /\ r_wal' = Append(r_wal, MarkItem("Cancel", tid, NextSeq(r_wal)))
    /\ r_pages' = revert_from(r_wal', NextSeq(r_wal), r_pages)
    /\ r_live' = r_live \ {tid}
    /\ r_pc' = "running"

\* What the cache may hold when recover() starts after a crash: the pages as
\* they were (all written back), or any one byte everywhere.
CrashImages == {r_pages} \cup {[p \in RecPageIds |-> Fill(b)] : b \in Bytes}

\* The process crashes and restarts: RecoveryManager::new over the same WAL,
\* then recover().
CrashRecover(image, revert_order, open_order) ==
    /\ r_pc = "running"
    /\ r_wal # <<>>
    /\ r_pages' = recover(r_wal, image, revert_order, open_order)
    /\ r_live' = {}
    /\ r_pc' = "recovered"
    /\ UNCHANGED r_wal

\* The data a write of len bytes stores at page[start..]: bytes that all
\* differ from the bytes the range holds.
ChangedBytes(page, start, len) ==
    [i \in 1 .. len |-> (page[start + i] + 1) % (MaxByte + 1)]


\* ------------------------------------------ TransactionManager, Transaction
Txs == 1 .. MaxTx
TxPageIds == 1 .. TxPages
NoTx == 0

\* A Write item pushed with the seq_counter of before next_seq().
DiffItem_StaleSeq(tid, seq, page_id, diff_start, diff) ==
    [kind |-> "Write", tid |-> tid, seq |-> seq - 1, page_id |-> page_id,
     diff_start |-> diff_start, diff |-> diff]

\* wal::Item of the XOR-diff WAL: Write {tid, page_id, diff_start, diff},
\* Commit(tid), Cancel(tid), each pushed with its seq.
DiffItem(tid, seq, page_id, diff_start, diff) ==
    [kind |-> "Write", tid |-> tid, seq |-> seq, page_id |-> page_id,
     diff_start |-> diff_start, diff |-> diff]

EndItem(kind, tid, seq) ==
    [kind |-> kind, tid |-> tid, seq |-> seq, page_id |-> NoPage,
     diff_start |-> 0, diff |-> <<>>]

\* A Transaction value; state "none" is no transaction on this thread, a
\* transaction is "active" from begin() until commit or cancel consumes it.
NoTransaction ==
    [state |-> "none", tid |-> 0, locks |-> [p \in {} |-> 0],
     orig |-> [p \in {} |-> ZeroPage]]

NotWaiting ==
    [kind |-> "none", t |-> NoTx, page_id |-> NoPage, victim |-> NoPage,
     index |-> 0, data |-> <<>>]

\* The last call: op on thread t returned res; for commit and cancel, the tid
\* of the consumed transaction and the bytes its pages held at first write.
TxEnd(op, t, res, tid, orig) ==
    [op |-> op, t |-> t, res |-> res, tid |-> tid, orig |-> orig]

TxResult(op, t, res) == TxEnd(op, t, res, 0, [p \in {} |-> ZeroPage])

\* The frames whose write lock is held by a guard in a transaction's locks.
LockedFrames == UNION {{txs[t].locks[p] : p \in DOMAIN txs[t].locks} : t \in Txs}

\* Frame locks that exclude nobody.
LockedByOther_None(t) == {}

\* The pages on which another transaction than t holds a write guard.
LockedByOther(t) == UNION {DOMAIN txs[u].locks : u \in Txs \ {t}}

\* The bytes a reader of page_id sees: its frame, or the storage's page.
PageContent(page_id) ==
    IF page_id \in DOMAIN map THEN frames[map[page_id]] ELSE storage[page_id]

NoCall == [op |-> "none", t |-> NoTx, page_id |-> NoPage, data |-> <<>>]

\* No read() or write() call made yet.
TxLogInit ==
    /\ tx_call = NoCall
    /\ writes_done = [t \in Txs |-> 0]
    /\ tx_wrote = [t \in Txs |-> [p \in {} |-> ZeroPage]]

\* begin() on thread t returned a transaction that has written nothing.
BeginCalled(t) ==
    /\ tx_call' = NoCall
    /\ writes_done' = [writes_done EXCEPT ![t] = 0]
    /\ tx_wrote' = [tx_wrote EXCEPT ![t] = [p \in {} |-> ZeroPage]]

\* write(page_id, data) of the transaction on thread t returned Ok.
WriteCalled(t, page_id, data) ==
    /\ tx_call' = [op |-> "write", t |-> t, page_id |-> page_id,
                   data |-> data]
    /\ writes_done' = [writes_done EXCEPT ![t] = @ + 1]
    /\ tx_wrote' = [tx_wrote EXCEPT ![t] = MapInsert(@, page_id, data)]

\* commit() or cancel() has consumed the transaction on thread t.
EndCalled(t) ==
    /\ tx_call' = NoCall
    /\ tx_wrote' = [tx_wrote EXCEPT ![t] = [p \in {} |-> ZeroPage]]
    /\ UNCHANGED writes_done

\* A call on the cache, not on a transaction, was made.
OtherCalled ==
    /\ tx_call' = NoCall
    /\ UNCHANGED <<writes_done, tx_wrote>>

\* The process was started again: no transaction of before is left.
RestartCalled ==
    /\ tx_call' = NoCall
    /\ writes_done' = [t \in Txs |-> 0]
    /\ tx_wrote' = [t \in Txs |-> [p \in {} |-> ZeroPage]]

\* TransactionManager::new before recover_from_wal, over an empty WAL.
TxInit ==
    /\ tm_wal = <<>>
    /\ wal_flushed = 0
    /\ seq_counter = 0
    /\ tid_counter = 0
    /\ txs = [t \in Txs |-> NoTransaction]
    /\ waiting = NotWaiting
    /\ tx_result = TxResult("new", NoTx, "ok")
    /\ committed = [p \in {} |-> ZeroPage]
    /\ tids_used = <<>>
    /\ restarts = 0

TxIdle ==
    /\ tm_wal = <<>>
    /\ wal_flushed = 0
    /\ seq_counter = 0
    /\ tid_counter = 0
    /\ txs = [t \in Txs |-> NoTransaction]
    /\ waiting = NotWaiting
    /\ tx_result = TxResult("idle", NoTx, "ok")
    /\ committed = [p \in {} |-> ZeroPage]
    /\ tids_used = <<>>
    /\ restarts = 0

\* TransactionManager::begin on thread t, the first thread that runs no
\* transaction.
Begin(t) ==
    /\ tx_result.op # "idle"
    /\ ~panicked
    /\ txs[t].state = "none"
    /\ \A u \in Txs : u < t => txs[u].state = "active"
    /\ tid_counter < MaxTid
    /\ txs' = [txs EXCEPT ![t] = [NoTransaction EXCEPT !.state = "active",
                                                      !.tid = tid_counter]]
    /\ tid_counter' = tid_counter + 1
    /\ tids_used' = Append(tids_used, tid_counter)
    /\ tx_result' = TxResult("begin", t, "ok")
    /\ UNCHANGED <<tm_wal, wal_flushed, seq_counter, waiting, committed,
                   restarts>>
    /\ UNCHANGED cacheVars

\* Transaction::write from the page bytes read on: generate_diff,
\* track_write, the write guard taken (or reused) and data copied into it.
\* st is the cache after the read, current the bytes read.
WriteRest(t, page_id, data, st, current) ==
    LET d == generate_diff(current, data)
        o == IF page_id \in DOMAIN txs[t].locks
             THEN Outcome(st, "ok", txs[t].locks[page_id], NoPage)
             ELSE access(st, page_id, TRUE, TRUE, TRUE, LockedFrames)
    IN /\ o.res = "ok"
       /\ seq_counter' = seq_counter + 1
       /\ tm_wal' = Append(tm_wal, DiffItem(txs[t].tid, seq_counter + 1, page_id,
                                      d.diff_start, d.diff))
       /\ SetCache([o.st EXCEPT !.frames[o.index] =
                       copy_from_slice(o.st.frames[o.index], 0, data)])
       /\ txs' = [txs EXCEPT
                    ![t].locks = MapInsert(txs[t].locks, page_id, o.index),
                    ![t].orig = IF page_id \in DOMAIN txs[t].orig
                                THEN txs[t].orig
                                ELSE MapInsert(txs[t].orig, page_id, current)]
       /\ tx_result' = TxResult("write", t, "ok")
       /\ UNCHANGED <<wal_flushed, tid_counter, committed, tids_used, restarts,
                      capacity, panicked, failures, cache_result, latest>>

\* Transaction::write(page_id, data) on a page the transaction holds.
WriteHeld(t, page_id, data) ==
    /\ txs[t].state = "active"
    /\ waiting.t # t
    /\ Len(tm_wal) < MaxTxWal
    /\ page_id \in DOMAIN txs[t].locks
    /\ WriteRest(t, page_id, data, CacheSt, frames[txs[t].locks[page_id]])
    /\ UNCHANGED waiting

\* Transaction::write(page_id, data) on a page the transaction does not hold
\* yet: the read goes through cache.read_page.  The call completes, or waits
\* inside access() for the frame lock of the page chosen for eviction.
WriteNew(t, page_id, data) ==
    /\ txs[t].state = "active"
    /\ ~panicked
    /\ waiting.kind = "none"
    /\ Len(tm_wal) < MaxTxWal
    /\ page_id \notin DOMAIN txs[t].locks
    /\ page_id \notin LockedByOther(t)
    /\ LET o == access(CacheSt, page_id, FALSE, TRUE, TRUE, LockedFrames)
       IN \/ /\ o.res = "ok"
             /\ WriteRest(t, page_id, data, o.st, o.st.frames[o.index])
             /\ UNCHANGED waiting
          \/ /\ o.res \in {"blocked_wb", "blocked_load"}
             /\ SetCache(o.st)
             /\ waiting' = [kind |-> o.res, t |-> t, page_id |-> page_id,
                            victim |-> o.victim, index |-> o.index,
                            data |-> data]
             /\ UNCHANGED <<tm_wal, wal_flushed, seq_counter, tid_counter, txs,
                            tx_result, committed, tids_used, restarts,
                            capacity,
                            panicked, failures, cache_result, latest>>

\* Transaction::read(page_id, buf) on a page the transaction holds: buf is
\* filled from the guard.
ReadHeld(t, page_id) ==
    /\ txs[t].state = "active"
    /\ waiting.t # t
    /\ page_id \in DOMAIN txs[t].locks
    /\ tx_call' = [op |-> "read", t |-> t, page_id |-> page_id,
                   data |-> frames[txs[t].locks[page_id]]]
    /\ tx_result' = TxResult("read", t, "ok")
    /\ UNCHANGED <<tm_wal, wal_flushed, seq_counter, tid_counter, txs, waiting,
                   committed, tids_used, restarts, writes_done, tx_wrote>>
    /\ UNCHANGED cacheVars

\* Transaction::read(page_id, buf) on a page the transaction does not hold:
\* buf is filled from cache.read_page.  The call completes, or waits inside
\* access() for the frame lock of the page chosen for eviction.
ReadNew(t, page_id) ==
    /\ txs[t].state = "active"
    /\ ~panicked
    /\ waiting.kind = "none"
    /\ page_id \notin DOMAIN txs[t].locks
    /\ page_id \notin LockedByOther(t)
    /\ LET o == access(CacheSt, page_id, FALSE, TRUE, TRUE, LockedFrames)
       IN \/ /\ o.res = "ok"
             /\ SetCache(o.st)
             /\ tx_call' = [op |-> "read", t |-> t, page_id |-> page_id,
                            data |-> o.st.frames[o.index]]
             /\ tx_result' = TxResult("read", t, "ok")
             /\ UNCHANGED waiting
          \/ /\ o.res \in {"blocked_wb", "blocked_load"}
             /\ SetCache(o.st)
             /\ waiting' = [kind |-> o.res, t |-> t, page_id |-> page_id,
                            victim |-> o.victim, index |-> o.index,
                            data |-> <<>>]
             /\ UNCHANGED <<tx_call, tx_result>>
    /\ UNCHANGED <<tm_wal, wal_flushed, seq_counter, tid_counter, txs,
                   committed, tids_used, restarts, writes_done, tx_wrote,
                   capacity, panicked, failures, cache_result, latest>>

\* The frame lock the access of a waiting read() waits for is released: the
\* access goes on from where it stopped, and buf is filled.
ReadResume ==
    /\ waiting.kind \in {"blocked_wb", "blocked_load"}
    /\ waiting.data = <<>>
    /\ waiting.index \notin LockedFrames
    /\ LET o == IF waiting.kind = "blocked_wb"
                THEN AccessEvict(CacheSt, waiting.page_id, waiting.victim,
                                 waiting.index, TRUE, TRUE, LockedFrames)
                ELSE AccessLoad(CacheSt, waiting.page_id, waiting.index,
                                waiting.victim, TRUE, LockedFrames)
       IN /\ o.res = "ok"
          /\ SetCache(o.st)
          /\ tx_call' = [op |-> "read", t |-> waiting.t,
                         page_id |-> waiting.page_id,
                         data |-> o.st.frames[o.index]]
    /\ tx_result' = TxResult("read", waiting.t, "ok")
    /\ waiting' = NotWaiting
    /\ UNCHANGED <<tm_wal, wal_flushed, seq_counter, tid_counter, txs,
                   committed, tids_used, restarts, writes_done, tx_wrote,
                   capacity, panicked, failures, cache_result, latest>>

\* The frame lock the access of thread waiting.t waits for is released: the
\* access goes on from where it stopped, and the write after it.
WriteResume ==
    /\ waiting.kind \in {"blocked_wb", "blocked_load"}
    /\ waiting.data # <<>>
    /\ waiting.index \notin LockedFrames
    /\ LET o == IF waiting.kind = "blocked_wb"
                THEN AccessEvict(CacheSt, waiting.page_id, waiting.victim,
                                 waiting.index, TRUE, TRUE, LockedFrames)
                ELSE AccessLoad(CacheSt, waiting.page_id, waiting.index,
                                waiting.victim, TRUE, LockedFrames)
       IN /\ o.res = "ok"
          /\ WriteRest(waiting.t, waiting.page_id, waiting.data, o.st,
                       o.st.frames[o.index])
    /\ waiting' = NotWaiting

\* Transaction::commit: track_commit pushes the Commit record and flushes the
\* WAL; the transaction is consumed, and its guards dropped, either way.
Commit(t, wal_ok) ==
    /\ txs[t].state = "active"
    /\ waiting.t # t
    /\ Len(tm_wal) < MaxTxWal
    /\ seq_counter' = seq_counter + 1
    /\ tm_wal' = Append(tm_wal, EndItem("Commit", txs[t].tid, seq_counter + 1))
    /\ wal_flushed' = IF wal_ok THEN Len(tm_wal') ELSE wal_flushed
    /\ txs' = [txs EXCEPT ![t] = NoTransaction]
    /\ committed' = IF wal_ok
                    THEN [p \in (DOMAIN committed) \cup (DOMAIN txs[t].locks) |->
                            IF p \in DOMAIN txs[t].locks
                            THEN frames[txs[t].locks[p]]
                            ELSE committed[p]]
                    ELSE committed
    /\ tx_result' = TxEnd("commit", t, IF wal_ok THEN "ok" ELSE "err",
                          txs[t].tid, txs[t].orig)
    /\ UNCHANGED <<tid_counter, waiting, tids_used, restarts>>
    /\ UNCHANGED cacheVars

\* Transaction::cancel: track_cancel pushes the Cancel record, then todo!()
\* panics; the unwinding drops the transaction and its guards.
Cancel(t) ==
    /\ txs[t].state = "active"
    /\ waiting.t # t
    /\ Len(tm_wal) < MaxTxWal
    /\ seq_counter' = seq_counter + 1
    /\ tm_wal' = Append(tm_wal, EndItem("Cancel", txs[t].tid, seq_counter + 1))
    /\ txs' = [txs EXCEPT ![t] = NoTransaction]
    /\ tx_result' = TxEnd("cancel", t, "panic", txs[t].tid, txs[t].orig)
    /\ UNCHANGED <<wal_flushed, tid_counter, waiting, committed, tids_used,
                   restarts>>
    /\ UNCHANGED cacheVars

\* cache.flush() by a thread that runs no transaction: it completes, or it
\* waits for the frame lock of a dirty page a transaction holds, after it
\* wrote the pages in done.
TxFlush(done) ==
    /\ tx_result.op # "idle"
    /\ ~panicked
    /\ waiting.kind = "none"
    /\ dirty # {}
    /\ LET held == {p \in dirty : map[p] \in LockedFrames}
       IN IF held = {}
          THEN /\ done = dirty
               /\ storage' = FlushWrites(dirty)
               /\ dirty' = {}
               /\ UNCHANGED waiting
          ELSE /\ done \subseteq dirty \ held
               /\ storage' = FlushWrites(done)
               /\ waiting' = [NotWaiting EXCEPT !.kind = "flush"]
               /\ UNCHANGED dirty
    /\ tx_result' = TxResult("flush", NoTx, "ok")
    /\ UNCHANGED <<capacity, map, manager, allocated, frames, cache_result,
                   panicked, failures, latest>>
    /\ UNCHANGED <<tm_wal, wal_flushed, seq_counter, tid_counter, txs,
                   committed, tids_used, restarts>>

\* The waiting flush() goes on once no dirty page is held by a guard.
FlushResume ==
    /\ waiting.kind = "flush"
    /\ \A p \in dirty : map[p] \notin LockedFrames
    /\ storage' = FlushWrites(dirty)
    /\ dirty' = {}
    /\ waiting' = NotWaiting
    /\ tx_result' = TxResult("flush", NoTx, "ok")
    /\ UNCHANGED <<capacity, map, manager, allocated, frames, cache_result,
                   panicked, failures, latest>>
    /\ UNCHANGED <<tm_wal, wal_flushed, seq_counter, tid_counter, txs,
                   committed, tids_used, restarts>>

\* The Write items recover_from_wal has buffered for tid: the positions of
\* the Writes of tid before position i that no Cancel(tid) has removed.
RECURSIVE BufferedWrites(_, _, _)
BufferedWrites(w, tid, i) ==
    IF i = 0 THEN <<>>
    ELSE IF w[i].tid # tid THEN BufferedWrites(w, tid, i - 1)
    ELSE IF w[i].kind = "Cancel" THEN <<>>
    ELSE IF w[i].kind = "Write" THEN Append(BufferedWrites(w, tid, i - 1), i)
    ELSE BufferedWrites(w, tid, i - 1)

\* The Commit arm of recover_from_wal: each buffered write XOR-ed into the
\* page got from cache.write_page.
RECURSIVE ReplayWrites(_, _, _)
ReplayWrites(w, idx, st) ==
    IF idx = <<>> THEN st
    ELSE LET item == w[Head(idx)]
             o == access(st, item.page_id, TRUE, TRUE, TRUE, {})
         IN ReplayWrites(w, Tail(idx),
               [o.st EXCEPT !.frames[o.index] =
                   apply_diff(o.st.frames[o.index], item.diff_start,
                              item.diff)])

\* The loop of recover_from_wal from item i on.
RECURSIVE RecoverLoop(_, _, _)
RecoverLoop(w, i, st) ==
    IF i > Len(w) THEN st
    ELSE RecoverLoop(w, i + 1,
            IF w[i].kind = "Commit"
            THEN ReplayWrites(w, BufferedWrites(w, w[i].tid, i - 1), st)
            ELSE st)

\* TransactionManager::recover_from_wal over the cache st.
recover_from_wal(w, st) == RecoverLoop(w, 1, st)

\* The process crashes and is started again: the WAL keeps its flushed
\* records and the first kept - wal_flushed of the buffered ones, the storage
\* its pages; PageCache::new, then TransactionManager::new over that WAL.
CrashRestart(kept) ==
    /\ tx_result.op \notin {"idle", "restart"}
    /\ restarts < MaxRestarts
    /\ restarts' = restarts + 1
    /\ kept \in wal_flushed .. Len(tm_wal)
    /\ tm_wal' = SubSeq(tm_wal, 1, kept)
    /\ wal_flushed' = kept
    /\ seq_counter' = 0
    /\ tid_counter' = 0
    /\ txs' = [t \in Txs |-> NoTransaction]
    /\ waiting' = NotWaiting
    /\ tx_result' = TxResult("restart", NoTx, "ok")
    /\ SetCache(recover_from_wal(tm_wal',
            [map |-> [p \in {} |-> 0], dirty |-> {}, manager |-> <<>>,
             allocated |-> {}, frames |-> [i \in Slots |-> ZeroPage],
             storage |-> storage]))
    /\ panicked' = FALSE
    /\ UNCHANGED <<capacity, cache_result, failures, latest, committed,
                   tids_used>>

\* PageCache::new over a storage of zeroed pages, as simple_transaction.
TxCacheInit ==
    /\ capacity \in 1 .. MaxCapacity
    /\ map = [p \in {} |-> 0]
    /\ dirty = {}
    /\ manager = <<>>
    /\ allocated = {}
    /\ frames = [i \in Slots |-> ZeroPage]
    /\ storage = [p \in PageIds |-> ZeroPage]
    /\ cache_result = CallResult("new", NoPage, "ok", ZeroPage, NoPage)
    /\ panicked = FALSE
    /\ failures = 0
    /\ latest = [p \in {} |-> ZeroPage]

\* ------------------------------------------- the storage calls of PageCache
\* No PageCache call made yet.
LogInit ==
    /\ calls = <<>>
    /\ sw_total = 0
    /\ sw_last = {}
    /\ dirty_before = {}

Call(op, page_id) == [op |-> op, page_id |-> page_id]

\* A storage.write_page(&page, page_id) call.
StorageWrite(page_id, data) == [page_id |-> page_id, data |-> data]

\* The storage.write_page calls of access(page_id, dirty_flag) on the cache as
\* it is: the write-back of the victim, if a victim was reclaimed and is dirty.
AccessWrites(page_id, dirty_flag) ==
    LET o == access(CacheSt, page_id, dirty_flag, TRUE, TRUE, {})
    IN IF o.victim # NoPage /\ o.victim \in DOMAIN map /\ o.victim \in dirty
       THEN {StorageWrite(o.victim, frames[map[o.victim]])}
       ELSE {}

\* The call op(page_id) is made and made writes, the storage.write_page calls.
Logged(op, page_id, writes) ==
    /\ Len(calls) < MaxCalls
    /\ calls' = Append(calls, Call(op, page_id))
    /\ sw_last' = writes
    /\ sw_total' = sw_total + Cardinality(writes)
    /\ dirty_before' = dirty

\* cache.read_page(page_id) over a storage that never fails.
LogReadPage(page_id) ==
    /\ ReadPage(page_id, "none")
    /\ Logged("read_page", page_id, AccessWrites(page_id, FALSE))

\* cache.write_page(page_id), the guard filled with data and dropped.
LogWritePage(page_id, data) ==
    /\ WritePage(page_id, data, "none")
    /\ Logged("write_page", page_id, AccessWrites(page_id, TRUE))

\* cache.flush(): one storage.write_page per dirty page, with its frame.
LogFlush ==
    /\ FlushOk
    /\ Logged("flush", NoPage,
              {StorageWrite(p, frames[map[p]]) : p \in dirty})

\* ------------------------------------------------------ SegmentAllocManager
\* Option<NonZeroU16>::None.
NoneNum == 0
\* The page numbers of a segment after the header page 0.
UserPages == 1 .. MAX_NUM_PAGES - 1
EmptyItems == [i \in 1 .. ItemsLen |-> NoneNum]

FreelistPage(next, length, items) ==
    [next |-> next, length |-> length, items |-> items]

HeaderPage(num_pages, freelist_trunk) ==
    [num_pages |-> num_pages, freelist_trunk |-> freelist_trunk]

\* The segment and the lock, as the functions below take and return them.
AllocSt == [header |-> header, pages |-> fl_pages, lock |-> alloc_lock]

\* What a call came to: the state it left, its result ("some", "none", "ok",
\* "err" for an I/O error, "corrupt" for CorruptedSegment, "blocked" for a
\* call that waits in alloc_lock.lock()), the page returned, and the number
\* of PageRwManager calls it made.
AllocOut(st, res, page, rw_calls) ==
    [st |-> st, res |-> res, page |-> page, rw_calls |-> rw_calls]

\* pop_free_page(tid); the fail-th PageRwManager call returns an error
\* (fail = 0: none does).
pop_free_page(st, fail) ==
    IF st.lock THEN AllocOut(st, "blocked", NoneNum, 0)
    ELSE
    LET locked == [st EXCEPT !.lock = TRUE]
        trunk_page_num == st.header.freelist_trunk
    IN  IF fail = 1 THEN AllocOut(locked, "err", NoneNum, 1)
        ELSE IF trunk_page_num = NoneNum
        THEN AllocOut(locked, "none", NoneNum, 1)
        ELSE IF fail = 2 THEN AllocOut(locked, "err", NoneNum, 2)
        ELSE
        LET trunk_page == st.pages[trunk_page_num]
        IN  IF trunk_page.length = 0
            THEN IF fail = 3 THEN AllocOut(locked, "err", NoneNum, 3)
                 ELSE AllocOut([locked EXCEPT !.header.freelist_trunk =
                                                   trunk_page.next],
                               "some", trunk_page_num, 3)
            ELSE
            LET last_free == trunk_page.length - 1
                popped_page == trunk_page.items[last_free + 1]
            IN  IF popped_page = NoneNum
                THEN AllocOut(locked, "corrupt", NoneNum, 2)
                ELSE IF fail = 3 THEN AllocOut(locked, "err", NoneNum, 3)
                ELSE AllocOut(
                       [st EXCEPT !.pages[trunk_page_num] =
                           FreelistPage(trunk_page.next,
                                        trunk_page.length - 1,
                                        [trunk_page.items EXCEPT
                                            ![last_free + 1] = NoneNum])],
                       "some", popped_page, 3)

\* create_new_page(tid).
create_new_page(st, fail) ==
    IF st.lock THEN AllocOut(st, "blocked", NoneNum, 0)
    ELSE
    LET locked == [st EXCEPT !.lock = TRUE]
        num_pages == st.header.num_pages
    IN  IF fail = 1 THEN AllocOut(locked, "err", NoneNum, 1)
        ELSE IF num_pages = MAX_NUM_PAGES
        THEN AllocOut(locked, "none", NoneNum, 1)
        ELSE IF num_pages = 0 THEN AllocOut(locked, "corrupt", NoneNum, 1)
        ELSE IF fail = 2 THEN AllocOut(locked, "err", NoneNum, 2)
        ELSE AllocOut([st EXCEPT !.header.num_pages = num_pages + 1],
                      "some", num_pages, 2)

\* alloc_page(tid): pop_free_page, and create_new_page when that returned
\* Ok(None).
alloc_page(st, fail) ==
    LET popped == pop_free_page(st, fail)
    IN  IF popped.res # "none" THEN popped
        ELSE
        LET created == create_new_page(popped.st,
                                       IF fail > popped.rw_calls
                                       THEN fail - popped.rw_calls ELSE 0)
        IN  AllocOut(created.st, created.res, created.page,
                     popped.rw_calls + created.rw_calls)

\* free_page(tid, page_num).
free_page(st, fail, page_num) ==
    IF st.lock THEN AllocOut(st, "blocked", NoneNum, 0)
    ELSE
    LET locked == [st EXCEPT !.lock = TRUE]
        trunk_page_num == st.header.freelist_trunk
        has_free_space ==
            /\ trunk_page_num # NoneNum
            /\ st.pages[trunk_page_num].length < ItemsLen
        \* the trunk with page_num pushed
        pushed ==
            IF has_free_space
            THEN [locked EXCEPT !.pages[trunk_page_num] =
                    FreelistPage(@.next, @.length + 1,
                                 [@.items EXCEPT ![@.length + 1] = page_num])]
            ELSE locked
        \* the calls made before write_page of page_num
        before_new == IF trunk_page_num = NoneNum THEN 1
                      ELSE IF has_free_space THEN 3 ELSE 2
        new_trunk == [pushed EXCEPT !.pages[page_num] =
                        FreelistPage(trunk_page_num, 0, EmptyItems)]
    IN  IF fail = 1 THEN AllocOut(locked, "err", NoneNum, 1)
        ELSE IF trunk_page_num # NoneNum /\ fail = 2
        THEN AllocOut(locked, "err", NoneNum, 2)
        ELSE IF has_free_space /\ fail = 3
        THEN AllocOut(locked, "err", NoneNum, 3)
        ELSE IF fail = before_new + 1
        THEN AllocOut(pushed, "err", NoneNum, before_new + 1)
        ELSE IF fail = before_new + 2
        THEN AllocOut(new_trunk, "err", NoneNum, before_new + 2)
        ELSE AllocOut([new_trunk EXCEPT !.header.freelist_trunk = page_num,
                                        !.lock = FALSE],
                      "ok", NoneNum, before_new + 2)

\* The most PageRwManager calls one call makes.
MaxRwCalls == 5

AllocResult(op, res, page) == [op |-> op, res |-> res, page |-> page]

\* The call has come to o: the segment and the lock are as it left them.
AllocDone(op, o, fail, arg) ==
    /\ fail = 0 \/ (o.res = "err" /\ alloc_failures < MaxAllocFailures)
    /\ header' = o.st.header
    /\ fl_pages' = o.st.pages
    /\ alloc_lock' = o.st.lock
    /\ alloc_result' = AllocResult(op, o.res, IF op = "free_page" THEN arg
                                              ELSE o.page)
    /\ alloc_failures' = IF fail = 0 THEN alloc_failures
                         ELSE alloc_failures + 1
    /\ alloc_before' = [header |-> header, pages |-> fl_pages,
                        out |-> pages_out]
    /\ UNCHANGED alloc_news

\* alloc_page(tid), called by a thread while no call waits for the lock.
AllocPage(fail) ==
    /\ alloc_result.res # "blocked"
    /\ LET o == alloc_page(AllocSt, fail)
       IN  /\ AllocDone("alloc_page", o, fail, NoneNum)
           /\ pages_out' = IF o.res = "some" THEN pages_out \cup {o.page}
                           ELSE pages_out

\* free_page(tid, page_num) of a page in use.
FreePage(fail, page_num) ==
    /\ alloc_result.res # "blocked"
    /\ page_num \in pages_out
    /\ LET o == free_page(AllocSt, fail, page_num)
       IN  /\ AllocDone("free_page", o, fail, page_num)
           /\ pages_out' = IF o.res = "ok" THEN pages_out \ {page_num}
                           ELSE pages_out

\* The process ends and SegmentAllocManager::new is called over the same
\* segment: alloc_lock is RawMutex::INIT again.
AllocNew ==
    /\ alloc_news < MaxNews
    /\ alloc_news' = alloc_news + 1
    /\ alloc_lock' = FALSE
    /\ alloc_result' = AllocResult("new", "ok", NoneNum)
    /\ alloc_before' = [header |-> header, pages |-> fl_pages,
                        out |-> pages_out]
    /\ UNCHANGED <<header, fl_pages, pages_out, alloc_failures>>

\* A segment of num_pages pages, all of them in use, and its manager.
AllocInit ==
    /\ \E num_pages \in 1 .. MAX_NUM_PAGES :
          /\ header = HeaderPage(num_pages, NoneNum)
          /\ pages_out = 1 .. (num_pages - 1)
    /\ fl_pages = [p \in UserPages |-> FreelistPage(NoneNum, 0, EmptyItems)]
    /\ alloc_lock = FALSE
    /\ alloc_result = AllocResult("new", "ok", NoneNum)
    /\ alloc_failures = 0
    /\ alloc_news = 0
    /\ alloc_before = [header |-> header, pages |-> fl_pages, out |-> pages_out]

AllocIdle ==
    /\ header = HeaderPage(1, NoneNum)
    /\ pages_out = {}
    /\ fl_pages = [p \in UserPages |-> FreelistPage(NoneNum, 0, EmptyItems)]
    /\ alloc_lock = FALSE
    /\ alloc_result = AllocResult("new", "ok", NoneNum)
    /\ alloc_failures = 0
    /\ alloc_news = 0
    /\ alloc_before = [header |-> header, pages |-> fl_pages, out |-> pages_out]

\* ------------------------------------- PageCache under concurrent callers
Threads == 1 .. MaxThreads

CThread(pc, page_id, dirty_flag, index, covered) ==
    [pc |-> pc, page_id |-> page_id, dirty_flag |-> dirty_flag,
     index |-> index, covered |-> covered]

IdleThread == CThread("idle", NoPage, FALSE, 0, NoPage)

RaceIdle == cthreads = [t \in Threads |-> IdleThread]

\* The page whose bytes the frame index holds: the page map sends to index.
PageInFrame(index) ==
    IF \E p \in DOMAIN map : map[p] = index
    THEN CHOOSE p \in DOMAIN map : map[p] = index
    ELSE NoPage

\* let index = self.access(page_id, dirty)?  in read_page / write_page: the
\* state mutex is taken and released inside access().
RaceAccess(t, page_id, dirty_flag) ==
    /\ ~panicked
    /\ cthreads[t].pc \in {"idle", "guarded"}
    /\ LET o == access(CacheSt, page_id, dirty_flag, TRUE, TRUE, {})
       IN /\ SetCache(o.st)
          /\ panicked' = (o.res = "panic")
          /\ cthreads' = [cthreads EXCEPT ![t] =
                IF o.res = "ok"
                THEN CThread("accessed", page_id, dirty_flag, o.index, NoPage)
                ELSE IdleThread]
    /\ UNCHANGED <<capacity, cache_result, failures, latest>>

\* self.buffer.read_page(index) / self.buffer.write_page(index): the frame
\* lock is taken; a write guard is filled with data; the guard is dropped.
RaceGuard(t, data) ==
    /\ ~panicked
    /\ cthreads[t].pc = "accessed"
    /\ cthreads' = [cthreads EXCEPT ![t].pc = "guarded",
                                    ![t].covered = PageInFrame(cthreads[t].index)]
    /\ frames' = IF cthreads[t].dirty_flag
                 THEN [frames EXCEPT ![cthreads[t].index] = data]
                 ELSE frames
    /\ UNCHANGED <<capacity, map, dirty, manager, allocated, storage,
                   cache_result, panicked, failures, latest>>

\* ------------------------------------- Transaction::write, step by step
NoMidWrite == [t |-> NoTx, page_id |-> NoPage, data |-> <<>>, current |-> <<>>]

MidIdle == mid_write = NoMidWrite

\* Transaction::write(page_id, data) on a page the transaction does not hold,
\* up to self.read(page_id, &mut page)?.  When the read fails, write()
\* returns the error.
WriteRead(t, page_id, data, fail) ==
    /\ txs[t].state = "active"
    /\ ~panicked
    /\ waiting.kind = "none"
    /\ mid_write = NoMidWrite
    /\ Len(tm_wal) < MaxTxWal
    /\ page_id \notin DOMAIN txs[t].locks
    /\ page_id \notin LockedByOther(t)
    /\ LET o == access(CacheSt, page_id, FALSE, fail # "wb", fail # "ld",
                       LockedFrames)
       IN /\ o.res \in {"ok", "err"}
          /\ Fails(fail, o.res)
          /\ SetCache(o.st)
          /\ mid_write' = IF o.res = "ok"
                          THEN [t |-> t, page_id |-> page_id, data |-> data,
                                current |-> o.st.frames[o.index]]
                          ELSE NoMidWrite
          /\ tx_result' = IF o.res = "ok" THEN tx_result
                          ELSE TxEnd("write", t, "err", txs[t].tid,
                                     MapInsert(<<>>, page_id,
                                               PageContent(page_id)))
    /\ UNCHANGED <<tm_wal, wal_flushed, seq_counter, tid_counter, txs, waiting,
                   committed, tids_used, restarts, capacity, panicked,
                   cache_result, latest>>

\* Transaction::write from generate_diff on: track_write pushes the Write
\* record, then cache.write_page(page_id)? gives the guard that data is
\* copied into.  When write_page fails, write() returns the error.
WriteTrack(fail) ==
    /\ mid_write # NoMidWrite
    /\ ~panicked
    /\ waiting.kind = "none"
    /\ LET t == mid_write.t
           page_id == mid_write.page_id
           d == generate_diff(mid_write.current, mid_write.data)
           o == access(CacheSt, page_id, TRUE, fail # "wb", fail # "ld",
                       LockedFrames)
       IN /\ o.res \in {"ok", "err"}
          /\ Fails(fail, o.res)
          /\ seq_counter' = seq_counter + 1
          /\ tm_wal' = Append(tm_wal,
                          DiffItem(txs[t].tid, seq_counter + 1, page_id,
                                   d.diff_start, d.diff))
          /\ IF o.res = "ok"
             THEN /\ SetCache([o.st EXCEPT !.frames[o.index] =
                        copy_from_slice(o.st.frames[o.index], 0,
                                        mid_write.data)])
                  /\ txs' = [txs EXCEPT
                        ![t].locks = MapInsert(txs[t].locks, page_id, o.index),
                        ![t].orig = MapInsert(txs[t].orig, page_id,
                                              mid_write.current)]
                  /\ tx_result' = TxResult("write", t, "ok")
             ELSE /\ SetCache(o.st)
                  /\ txs' = txs
                  /\ tx_result' = TxEnd("write", t, "err", txs[t].tid,
                                        MapInsert(<<>>, page_id,
                                                  mid_write.current))
    /\ mid_write' = NoMidWrite
    /\ UNCHANGED <<wal_flushed, tid_counter, waiting, committed, tids_used,
                   restarts, capacity, panicked, cache_result, latest>>

\* cache.read_page(page_id) by a thread that runs no transaction, the guard
\* dropped at once.
OtherRead(page_id) ==
    /\ tx_result.op # "idle"
    /\ ~panicked
    /\ waiting.kind = "none"
    /\ LET o == access(CacheSt, page_id, FALSE, TRUE, TRUE, LockedFrames)
       IN /\ o.res = "ok"
          /\ o.index \notin LockedFrames
          /\ SetCache(o.st)
    /\ UNCHANGED <<tm_wal, wal_flushed, seq_counter, tid_counter, txs, waiting,
                   tx_result, committed, tids_used, restarts, capacity,
                   panicked, failures, cache_result, latest>>

\* ---------------------------------------------------------------- SpecDiff
DiffIdle ==
    /\ d_old = <<>> /\ d_new = <<>>
    /\ d_out = [diff_start |-> 0, diff |-> <<>>]
    /\ d_page = <<>>
    /\ d_pc = "idle"

DiffInit ==
    /\ d_old \in [1 .. DiffLen -> Bytes]
    /\ d_new \in [1 .. DiffLen -> Bytes]
    /\ d_out = [diff_start |-> 0, diff |-> <<>>]
    /\ d_page = d_old
    /\ d_pc = "input"

\* let (diff_start, diff) = Self::generate_diff(&mut page, data)?
GenerateDiff ==
    /\ d_pc = "input"
    /\ d_out' = generate_diff(d_old, d_new)
    /\ d_pc' = "diffed"
    /\ UNCHANGED <<d_old, d_new, d_page>>

\* The diff XOR-ed into the page at diff_start, as recover_from_wal does.
ApplyDiff ==
    /\ d_pc \in {"diffed", "applied"}
    /\ d_page' = apply_diff(d_page, d_out.diff_start, d_out.diff)
    /\ d_pc' = IF d_pc = "diffed" THEN "applied" ELSE "reverted"
    /\ UNCHANGED <<d_old, d_new, d_out>>

CacheIdle ==
    /\ capacity = 1
    /\ map = [p \in {} |-> 0]
    /\ dirty = {}
    /\ manager = <<>>
    /\ allocated = {}
    /\ frames = [i \in Slots |-> ZeroPage]
    /\ storage = [p \in PageIds |-> ZeroPage]
    /\ cache_result = CallResult("new", NoPage, "ok", ZeroPage, NoPage)
    /\ panicked = FALSE
    /\ failures = 0
    /\ latest = [p \in {} |-> ZeroPage]

InitDiff == DiffInit /\ CacheIdle /\ RecIdle /\ TxIdle /\ LogInit
    /\ TxLogInit /\ AllocIdle /\ RaceIdle /\ MidIdle

NextDiff ==
    \/ GenerateDiff /\ UNCHANGED <<midVars, raceVars, allocVars, cacheVars, recVars, txVars, logVars, txLogVars>>
    \/ ApplyDiff /\ UNCHANGED <<midVars, raceVars, allocVars, cacheVars, recVars, txVars, logVars, txLogVars>>

SpecDiff == InitDiff /\ [][NextDiff]_vars

\* --------------------------------------------------------------- SpecCache
InitCache == DiffIdle /\ CacheInit /\ RecIdle /\ TxIdle /\ LogInit
    /\ TxLogInit /\ AllocIdle /\ RaceIdle /\ MidIdle

NextCache ==
    \/ \E p \in PageIds, fail \in FailModes :
         ReadPage(p, fail) /\ UNCHANGED <<midVars, raceVars, allocVars, diffVars, recVars, txVars, logVars, txLogVars>>
    \/ \E p \in PageIds, data \in Fills, fail \in FailModes :
         WritePage(p, data, fail) /\ UNCHANGED <<midVars, raceVars, allocVars, diffVars, recVars, txVars, logVars, txLogVars>>
    \/ FlushOk /\ UNCHANGED <<midVars, raceVars, allocVars, diffVars, recVars, txVars, logVars, txLogVars>>
    \/ \E q \in PageIds, done \in SUBSET PageIds :
         FlushErr(q, done) /\ UNCHANGED <<midVars, raceVars, allocVars, diffVars, recVars, txVars, logVars, txLogVars>>
    \/ \E q \in PageIds, done \in SUBSET PageIds :
         FlushPanic(q, done) /\ UNCHANGED <<midVars, raceVars, allocVars, diffVars, recVars, txVars, logVars, txLogVars>>

SpecCache == InitCache /\ [][NextCache]_vars

\* The same cache over a storage that never fails.
NextCacheOk ==
    \/ \E p \in PageIds : ReadPage(p, "none") /\ UNCHANGED <<midVars, raceVars, allocVars, diffVars, recVars, txVars, logVars, txLogVars>>
    \/ \E p \in PageIds, data \in Fills :
         WritePage(p, data, "none") /\ UNCHANGED <<midVars, raceVars, allocVars, diffVars, recVars, txVars, logVars, txLogVars>>
    \/ FlushOk /\ UNCHANGED <<midVars, raceVars, allocVars, diffVars, recVars, txVars, logVars, txLogVars>>

SpecCacheOk == InitCache /\ [][NextCacheOk]_vars

\* ------------------------------------------------------------ SpecCacheLog
\* The cache over a storage that never fails, with its calls logged.
NextCacheLog ==
    \/ \E p \in PageIds :
         LogReadPage(p) /\ UNCHANGED <<midVars, raceVars, allocVars, diffVars, recVars, txVars, txLogVars>>
    \/ \E p \in PageIds, data \in Fills :
         LogWritePage(p, data) /\ UNCHANGED <<midVars, raceVars, allocVars, diffVars, recVars, txVars, txLogVars>>
    \/ LogFlush /\ UNCHANGED <<midVars, raceVars, allocVars, diffVars, recVars, txVars, txLogVars>>

SpecCacheLog == InitCache /\ [][NextCacheLog]_vars

\* ------------------------------------------------------------ SpecRecovery
InitRecovery == DiffIdle /\ CacheIdle /\ RecInit /\ TxIdle /\ LogInit
    /\ TxLogInit /\ AllocIdle /\ RaceIdle /\ MidIdle

NextRecovery ==
    \/ \E tid \in 0 .. MaxWal, page_id \in RecPageIds,
          start \in 0 .. (PageSize - 1) :
         \E len \in 1 .. (PageSize - start) :
            TrackWrite(tid, page_id, start,
                       ChangedBytes(r_pages[page_id], start, len))
               /\ UNCHANGED <<midVars, raceVars, allocVars, diffVars, cacheVars, txVars, logVars, txLogVars>>
    \/ \E tid \in r_live :
         CommitTransaction(tid) /\ UNCHANGED <<midVars, raceVars, allocVars, diffVars, cacheVars, txVars, logVars, txLogVars>>
    \/ \E tid \in r_live :
         CancelTransaction(tid) /\ UNCHANGED <<midVars, raceVars, allocVars, diffVars, cacheVars, txVars, logVars, txLogVars>>
    \/ \E image \in CrashImages, revert_order \in Orders(RevertSeqs(r_wal)),
          open_order \in Orders(OpenSeqs(r_wal)) :
         CrashRecover(image, revert_order, open_order)
            /\ UNCHANGED <<midVars, raceVars, allocVars, diffVars, cacheVars, txVars, logVars, txLogVars>>

SpecRecovery == InitRecovery /\ [][NextRecovery]_vars

\* ------------------------------------------------------------------ SpecTx
InitTx == DiffIdle /\ TxCacheInit /\ RecIdle /\ TxInit /\ LogInit
    /\ TxLogInit /\ AllocIdle /\ RaceIdle /\ MidIdle

NextTx ==
    \/ \E t \in Txs :
         Begin(t) /\ BeginCalled(t) /\ UNCHANGED <<midVars, raceVars, allocVars, diffVars, recVars, logVars>>
    \/ \E t \in Txs, page_id \in TxPageIds, data \in Fills :
         WriteHeld(t, page_id, data) /\ WriteCalled(t, page_id, data)
            /\ UNCHANGED <<midVars, raceVars, allocVars, diffVars, recVars, logVars>>
    \/ \E t \in Txs, page_id \in TxPageIds, data \in Fills :
         WriteNew(t, page_id, data)
            /\ (IF waiting'.kind = "none" THEN WriteCalled(t, page_id, data)
                ELSE UNCHANGED txLogVars)
            /\ UNCHANGED <<midVars, raceVars, allocVars, diffVars, recVars, logVars>>
    \/ WriteResume
          /\ WriteCalled(waiting.t, waiting.page_id, waiting.data)
          /\ UNCHANGED <<midVars, raceVars, allocVars, diffVars, recVars, logVars>>
    \/ \E t \in Txs, wal_ok \in BOOLEAN :
         Commit(t, wal_ok) /\ EndCalled(t)
            /\ UNCHANGED <<midVars, raceVars, allocVars, diffVars, recVars, logVars>>
    \/ \E t \in Txs :
         Cancel(t) /\ EndCalled(t) /\ UNCHANGED <<midVars, raceVars, allocVars, diffVars, recVars, logVars>>
    \/ \E done \in SUBSET TxPageIds :
         TxFlush(done) /\ OtherCalled
            /\ UNCHANGED <<midVars, raceVars, allocVars, diffVars, recVars, logVars>>
    \/ FlushResume /\ OtherCalled /\ UNCHANGED <<midVars, raceVars, allocVars, diffVars, recVars, logVars>>
    \/ \E kept \in 0 .. MaxTxWal :
         CrashRestart(kept) /\ RestartCalled
            /\ UNCHANGED <<midVars, raceVars, allocVars, diffVars, recVars, logVars>>

SpecTx == InitTx /\ [][NextTx]_vars

\* -------------------------------------------------------------- SpecTxRead
\* The transactions of one TransactionManager, reading and writing.
NextTxRead ==
    \/ \E t \in Txs :
         Begin(t) /\ BeginCalled(t) /\ UNCHANGED <<midVars, raceVars, allocVars, diffVars, recVars, logVars>>
    \/ \E t \in Txs, page_id \in TxPageIds, data \in Fills :
         WriteHeld(t, page_id, data) /\ WriteCalled(t, page_id, data)
            /\ UNCHANGED <<midVars, raceVars, allocVars, diffVars, recVars, logVars>>
    \/ \E t \in Txs, page_id \in TxPageIds, data \in Fills :
         WriteNew(t, page_id, data)
            /\ (IF waiting'.kind = "none" THEN WriteCalled(t, page_id, data)
                ELSE UNCHANGED txLogVars)
            /\ UNCHANGED <<midVars, raceVars, allocVars, diffVars, recVars, logVars>>
    \/ WriteResume
          /\ WriteCalled(waiting.t, waiting.page_id, waiting.data)
          /\ UNCHANGED <<midVars, raceVars, allocVars, diffVars, recVars, logVars>>
    \/ \E t \in Txs, page_id \in TxPageIds :
         ReadHeld(t, page_id) /\ UNCHANGED <<midVars, raceVars, allocVars, diffVars, recVars, logVars>>
    \/ \E t \in Txs, page_id \in TxPageIds :
         ReadNew(t, page_id) /\ UNCHANGED <<midVars, raceVars, allocVars, diffVars, recVars, logVars>>
    \/ ReadResume /\ UNCHANGED <<midVars, raceVars, allocVars, diffVars, recVars, logVars>>
    \/ \E t \in Txs, wal_ok \in BOOLEAN :
         Commit(t, wal_ok) /\ EndCalled(t)
            /\ UNCHANGED <<midVars, raceVars, allocVars, diffVars, recVars, logVars>>
    \/ \E t \in Txs :
         Cancel(t) /\ EndCalled(t) /\ UNCHANGED <<midVars, raceVars, allocVars, diffVars, recVars, logVars>>

SpecTxRead == InitTx /\ [][NextTxRead]_vars

\* --------------------------------------------------------------- SpecAlloc
InitAlloc == DiffIdle /\ CacheIdle /\ RecIdle /\ TxIdle /\ LogInit
    /\ TxLogInit /\ AllocInit /\ RaceIdle /\ MidIdle

NextAlloc ==
    \/ \E fail \in 0 .. MaxRwCalls :
         AllocPage(fail)
            /\ UNCHANGED <<midVars, raceVars, diffVars, cacheVars, recVars, txVars, logVars, txLogVars>>
    \/ \E fail \in 0 .. MaxRwCalls, page_num \in UserPages :
         FreePage(fail, page_num)
            /\ UNCHANGED <<midVars, raceVars, diffVars, cacheVars, recVars, txVars, logVars, txLogVars>>
    \/ AllocNew
            /\ UNCHANGED <<midVars, raceVars, diffVars, cacheVars, recVars, txVars, logVars, txLogVars>>

SpecAlloc == InitAlloc /\ [][NextAlloc]_vars

\* ----------------------------------------------------------- SpecCacheRace
NextCacheRace ==
    \/ \E t \in Threads, page_id \in PageIds, dirty_flag \in BOOLEAN :
         RaceAccess(t, page_id, dirty_flag)
            /\ UNCHANGED <<midVars, diffVars, recVars, txVars, logVars, txLogVars, allocVars>>
    \/ \E t \in Threads :
         RaceGuard(t, Fill(MaxByte))
            /\ UNCHANGED <<midVars, diffVars, recVars, txVars, logVars, txLogVars, allocVars>>

SpecCacheRace == InitCache /\ [][NextCacheRace]_vars

\* --------------------------------------------------------------- SpecTxFail
NextTxFail ==
    \/ \E t \in Txs :
         Begin(t) /\ BeginCalled(t) /\ UNCHANGED midVars
            /\ UNCHANGED <<raceVars, allocVars, diffVars, recVars, logVars>>
    \/ \E t \in Txs, page_id \in TxPageIds, data \in Fills,
          fail \in FailModes :
         WriteRead(t, page_id, data, fail) /\ UNCHANGED txLogVars
            /\ UNCHANGED <<raceVars, allocVars, diffVars, recVars, logVars>>
    \/ \E fail \in FailModes :
         WriteTrack(fail)
            /\ (IF tx_result'.res = "ok"
                THEN WriteCalled(mid_write.t, mid_write.page_id, mid_write.data)
                ELSE UNCHANGED txLogVars)
            /\ UNCHANGED <<raceVars, allocVars, diffVars, recVars, logVars>>
    \/ \E page_id \in TxPageIds :
         OtherRead(page_id) /\ UNCHANGED txLogVars /\ UNCHANGED midVars
            /\ UNCHANGED <<raceVars, allocVars, diffVars, recVars, logVars>>
    \/ \E t \in Txs \ {mid_write.t}, wal_ok \in BOOLEAN :
         Commit(t, wal_ok) /\ EndCalled(t) /\ UNCHANGED midVars
            /\ UNCHANGED <<raceVars, allocVars, diffVars, recVars, logVars>>

SpecTxFail == InitTx /\ [][NextTxFail]_vars

Spec == SpecCache

\* =================================================================== claims

\* C4: for equal-length old and new, XOR-ing the diff of generate_diff(old,
\* new) into old at diff_start yields new, and XOR-ing it in again yields old.
C4_DiffRoundTrip ==
    /\ d_pc = "applied" => d_page = d_new
    /\ d_pc = "reverted" => d_page = d_old

\* C7: at every observable state of the PageCache, also after a call that
\* returned a storage error, dirty is a subset of the keys of map.
C7_DirtyIsResident == ~panicked => dirty \subseteq DOMAIN map

\* C8: outside access(), also after an access that returned a storage error,
\* a frame is allocated iff exactly one page id maps to it, and |map| <=
\* capacity.
C8_CacheBijection ==
    ~panicked =>
        /\ \A i \in Slots :
              i \in allocated <=>
                  Cardinality({p \in DOMAIN map : map[p] = i}) = 1
        /\ \A p \in DOMAIN map : map[p] \in Slots
        /\ Cardinality(DOMAIN map) <= capacity

\* C10: over a storage that never fails, with each guard dropped before the
\* next call, read_page(id) yields the bytes most recently stored through a
\* write guard on id, or the storage's bytes if id was never written.
C10_ReadYieldsLatest ==
    (cache_result.op = "read_page" /\ cache_result.res = "ok") =>
        cache_result.data =
            IF cache_result.page_id \in DOMAIN latest
            THEN latest[cache_result.page_id]
            ELSE storage[cache_result.page_id]

\* A read that evicted a page to reload one that had been written, evicted
\* and written back with bytes the storage did not hold at first.
C10_Witness ==
    /\ cache_result.op = "read_page" /\ cache_result.res = "ok"
    /\ cache_result.victim # NoPage
    /\ cache_result.page_id \in DOMAIN latest
    /\ cache_result.page_id \notin dirty
    /\ latest[cache_result.page_id] # InitStorage[cache_result.page_id]
    /\ cache_result.data = latest[cache_result.page_id]

\* The positions of the Writes of tid in the WAL that cover byte i (from 1)
\* of page page_id.
WritesCovering(wal, tid, page_id, i) ==
    {k \in 1 .. Len(wal) :
        /\ wal[k].kind = "Write" /\ wal[k].tid = tid
        /\ wal[k].page_id = page_id
        /\ i > wal[k].start /\ i <= wal[k].start + Len(wal[k].after)}

SetMax(S) == CHOOSE x \in S : \A y \in S : y <= x
SetMin(S) == CHOOSE x \in S : \A y \in S : x <= y

Terminated(wal, tid) ==
    \E k \in 1 .. Len(wal) : wal[k].tid = tid /\ wal[k].kind # "Write"

\* The transactions with Writes in the WAL and neither Commit nor Cancel.
Unterminated(wal) == {t \in WalTids(wal) : ~Terminated(wal, t)}

\* C2: for a WAL whose last record is Commit(tid), the other transactions in
\* it committed or canceled, after recover() every byte written by tid holds
\* what applying the Writes of tid in WAL order leaves there.
C2_CommittedRedone ==
    (/\ r_pc = "recovered"
     /\ r_wal[Len(r_wal)].kind = "Commit"
     /\ Unterminated(r_wal) = {}) =>
        \A page_id \in RecPageIds, i \in 1 .. PageSize :
            LET ws == WritesCovering(r_wal, r_wal[Len(r_wal)].tid, page_id, i)
            IN ws # {} =>
                 r_pages[page_id][i] =
                    r_wal[SetMax(ws)].after[i - r_wal[SetMax(ws)].start]

\* C3 as stated: after recover(), every byte written by a transaction with
\* neither Commit nor Cancel holds the before image of that transaction's
\* earliest Write to it.
C3_UncommittedUndone ==
    r_pc = "recovered" =>
        \A tid \in Unterminated(r_wal), page_id \in RecPageIds,
           i \in 1 .. PageSize :
            LET ws == WritesCovering(r_wal, tid, page_id, i)
            IN ws # {} =>
                 r_pages[page_id][i] =
                    r_wal[SetMin(ws)].before[i - r_wal[SetMin(ws)].start]

\* The positions of the Cancel records of the WAL.
CancelSeqs(wal) == {c \in 1 .. Len(wal) : wal[c].kind = "Cancel"}

\* The positions of the Writes of the Cancel record c's transaction before c.
WritesBefore(wal, c) ==
    {k \in 1 .. (c - 1) : wal[k].kind = "Write" /\ wal[k].tid = wal[c].tid}

\* The tids open_transactions holds after the forward pass.
OpenTids(wal) == {wal[seq].tid : seq \in OpenSeqs(wal)}

\* The tids other than tid with a Write that covers byte i of page page_id
\* and without a Commit record: the other transactions recover() reverts at
\* that byte.
OtherReverted(wal, tid, page_id, i) ==
    {t \in WalTids(wal) \ {tid} :
        /\ WritesCovering(wal, t, page_id, i) # {}
        /\ \A k \in 1 .. Len(wal) :
              wal[k].tid = t => wal[k].kind # "Commit"}

\* C26 as stated: the forward pass removes a canceled tid from
\* open_transactions and puts the seq of the tid's last Write before the
\* Cancel into the revert set; after recover() every byte the canceled
\* transaction wrote holds the before image of its earliest Write to it.
C26_CancelRevertsLastWrite ==
    /\ RevertSeqs(r_wal) =
          {SetMax(WritesBefore(r_wal, c)) : c \in CancelSeqs(r_wal)}
    /\ \A c \in CancelSeqs(r_wal) : r_wal[c].tid \notin OpenTids(r_wal)
    /\ r_pc = "recovered" =>
          \A c \in CancelSeqs(r_wal), page_id \in RecPageIds,
             i \in 1 .. PageSize :
              LET ws == WritesCovering(r_wal, r_wal[c].tid, page_id, i)
              IN ws # {} =>
                   r_pages[page_id][i] =
                      r_wal[SetMin(ws)].before[i - r_wal[SetMin(ws)].start]

\* C26, amended: the forward pass removes a canceled tid from
\* open_transactions and puts the seq of the Cancel record itself into the
\* revert set; after recover() every byte the canceled transaction wrote and
\* no other reverted (canceled or unterminated) transaction wrote holds the
\* before image of the canceled transaction's earliest Write to it.
C26_CancelRevertsFromCancel ==
    /\ RevertSeqs(r_wal) = CancelSeqs(r_wal)
    /\ \A c \in CancelSeqs(r_wal) : r_wal[c].tid \notin OpenTids(r_wal)
    /\ r_pc = "recovered" =>
          \A c \in CancelSeqs(r_wal), page_id \in RecPageIds,
             i \in 1 .. PageSize :
              LET ws == WritesCovering(r_wal, r_wal[c].tid, page_id, i)
              IN (ws # {} /\ OtherReverted(r_wal, r_wal[c].tid, page_id, i) = {})
                   => r_pages[page_id][i] =
                         r_wal[SetMin(ws)].before[i - r_wal[SetMin(ws)].start]

\* recover() has run over a WAL in which a transaction wrote a byte and
\* canceled and a later transaction wrote the same byte and committed.
C26_Witness ==
    /\ r_pc = "recovered"
    /\ Len(r_wal) = 4
    /\ r_wal[2].kind = "Cancel" /\ r_wal[4].kind = "Commit"
    /\ \E page_id \in RecPageIds, i \in 1 .. PageSize :
          /\ WritesCovering(r_wal, r_wal[2].tid, page_id, i) = {1}
          /\ WritesCovering(r_wal, r_wal[4].tid, page_id, i) = {3}
          /\ OtherReverted(r_wal, r_wal[2].tid, page_id, i) = {}

\* ------------------------------------------------------- claims on SpecTx
\* C1: once commit() has returned Ok, after a crash at any later point and
\* TransactionManager::new over the same WAL and storage, every page the
\* transaction wrote reads back as the data it wrote, unless a later
\* committed transaction wrote the page.
C1_CommittedSurvivesCrash ==
    tx_result.op = "restart" =>
        \A page_id \in DOMAIN committed :
            PageContent(page_id) = committed[page_id]

\* C5: a terminated tid never reappears: no live transaction has a tid with a
\* Commit or Cancel record in the WAL, and every begin() returns a tid that
\* no other live or past transaction was given.
C5_TidNeverReused ==
    /\ \A t \in Txs :
          txs[t].state = "active" =>
             \A i \in 1 .. Len(tm_wal) :
                tm_wal[i].kind \in {"Commit", "Cancel"} =>
                   tm_wal[i].tid # txs[t].tid
    /\ \A i, j \in 1 .. Len(tids_used) :
          i # j => tids_used[i] # tids_used[j]

\* C6: after cancel(), a Cancel record of the tid is in the WAL and flushed,
\* every page the transaction wrote holds in the cache the bytes it held
\* before the transaction's first write to it, the transaction's write guards
\* are released, and cancel() has returned normally.
C6_CancelRollsBack ==
    tx_result.op = "cancel" =>
        /\ tx_result.res = "ok"
        /\ \E i \in 1 .. wal_flushed :
              tm_wal[i].kind = "Cancel" /\ tm_wal[i].tid = tx_result.tid
        /\ \A page_id \in DOMAIN tx_result.orig :
              PageContent(page_id) = tx_result.orig[page_id]
        /\ DOMAIN txs[tx_result.t].locks = {}

\* C9: while a live transaction holds a write guard on page_id, no access
\* selects page_id as the eviction victim: the page stays in map at the slot
\* of the guard.
C9_PinnedNotEvicted ==
    \A t \in Txs :
        \A page_id \in DOMAIN txs[t].locks :
            /\ waiting.victim # page_id
            /\ page_id \in DOMAIN map
            /\ map[page_id] = txs[t].locks[page_id]

\* ------------------------------------------------- claims on SpecCacheLog
\* The calls so far are write_page(a), write_page(b), write_page(c) and
\* read_page(a) on a cache of capacity 2, for distinct pages a, b, c.
EvictionScenario(a, b, c) ==
    /\ capacity = 2
    /\ Cardinality({a, b, c}) = 3
    /\ calls = <<Call("write_page", a), Call("write_page", b),
                 Call("write_page", c), Call("read_page", a)>>

\* C11 as stated: with capacity 2, after write_page on A, B, C and then
\* read_page(A), storage.write_page was called exactly once in total,
\* num_dirty() is 2 and the read returns the value last written to A.
C11_OneWriteBack ==
    \A a, b, c \in PageIds :
        EvictionScenario(a, b, c) =>
            /\ sw_total = 1
            /\ Cardinality(dirty) = 2
            /\ cache_result.data = latest[a]

\* C11 as amended: after the three writes storage.write_page was called once
\* (for A) and num_dirty() is 2; the read of A then evicts B with a second
\* write-back, so after it storage.write_page was called exactly twice,
\* num_dirty() is 1, and the read returns the value last written to A.
C11_TwoWriteBacks ==
    \A a, b, c \in PageIds :
        /\ (/\ capacity = 2
            /\ Cardinality({a, b, c}) = 3
            /\ calls = <<Call("write_page", a), Call("write_page", b),
                         Call("write_page", c)>>) =>
              /\ sw_total = 1
              /\ sw_last = {StorageWrite(a, latest[a])}
              /\ Cardinality(dirty) = 2
        /\ EvictionScenario(a, b, c) =>
              /\ sw_total = 2
              /\ sw_last = {StorageWrite(b, latest[b])}
              /\ dirty = {c}
              /\ cache_result.data = latest[a]

\* The scenario has run, and A was written with bytes the storage did not
\* hold for it at first.
C11_Witness ==
    \E a, b, c \in PageIds :
        /\ EvictionScenario(a, b, c)
        /\ latest[a] # InitStorage[a]
        /\ cache_result.res = "ok"

LastCall == calls[Len(calls)]

\* C12: after flush() returns, num_dirty() is 0, and a later flush() with no
\* write_page between the two performs no storage write.
C12_FlushClearsDirty ==
    (calls # <<>> /\ LastCall.op = "flush") =>
        /\ Cardinality(dirty) = 0
        /\ (\E i \in 1 .. (Len(calls) - 1) :
               /\ calls[i].op = "flush"
               /\ \A j \in (i + 1) .. (Len(calls) - 1) :
                     calls[j].op # "write_page") => sw_last = {}

\* A flush that wrote a page, a read that reloaded another page, and a second
\* flush that wrote nothing.
C12_Witness ==
    /\ Len(calls) = 4
    /\ calls[1].op = "write_page" /\ calls[2].op = "flush"
    /\ calls[3].op = "read_page" /\ calls[3].page_id # calls[1].page_id
    /\ calls[4].op = "flush"
    /\ sw_total = 1 /\ sw_last = {}
    /\ storage[calls[1].page_id] = latest[calls[1].page_id]
    /\ latest[calls[1].page_id] # InitStorage[calls[1].page_id]

\* The pages of the calls so far, and those obtained through write_page.
PagesAccessed == {calls[i].page_id : i \in 1 .. Len(calls)} \ {NoPage}
PagesWritten ==
    {calls[i].page_id : i \in {j \in 1 .. Len(calls) :
                                  calls[j].op = "write_page"}}

C14_SeqCountsAppends ==
    /\ seq_counter <= Len(tm_wal)
    /\ \A k \in 1 .. seq_counter :
          tm_wal[Len(tm_wal) - seq_counter + k].seq = k

\* Two live transactions have appended three records in turns.
C14_Witness ==
    /\ seq_counter = 3
    /\ Len(tm_wal) = 3
    /\ tm_wal[1].tid # tm_wal[2].tid
    /\ tm_wal[3].tid = tm_wal[1].tid
    /\ \A t \in Txs : txs[t].state = "active"

\* The positions of the Write records of tid in the WAL.
WritesOf(tid) ==
    {i \in DOMAIN tm_wal : tm_wal[i].kind = "Write" /\ tm_wal[i].tid = tid}

\* The positions of the Commit and Cancel records of tid in the WAL.
EndsOf(tid) ==
    {i \in DOMAIN tm_wal : tm_wal[i].kind # "Write" /\ tm_wal[i].tid = tid}

\* C15: a transaction has exactly one Write record in the WAL per write()
\* call, in program order and with strictly increasing seq; its commit()
\* appends exactly one Commit record of its tid with a greater seq; no record
\* of that tid follows its Commit or Cancel.
C15_RecordsOfTransaction ==
    /\ tx_call.op = "write" =>
          /\ tm_wal[Len(tm_wal)].kind = "Write"
          /\ tm_wal[Len(tm_wal)].tid = txs[tx_call.t].tid
          /\ tm_wal[Len(tm_wal)].page_id = tx_call.page_id
          /\ Cardinality(WritesOf(txs[tx_call.t].tid)) = writes_done[tx_call.t]
    /\ \A i, j \in DOMAIN tm_wal :
          (i < j /\ tm_wal[i].tid = tm_wal[j].tid) =>
             /\ tm_wal[i].seq < tm_wal[j].seq
             /\ tm_wal[i].kind = "Write"
    /\ tx_result.op = "commit" =>
          /\ tm_wal[Len(tm_wal)] =
                EndItem("Commit", tx_result.tid, seq_counter)
          /\ EndsOf(tx_result.tid) = {Len(tm_wal)}
          /\ Cardinality(WritesOf(tx_result.tid)) = writes_done[tx_result.t]

\* C18: when commit() returns the error of the WAL flush, the transaction
\* remains active: its write guards are still held and it can be committed
\* again or canceled.
C18_CommitErrorKeepsActive ==
    (tx_result.op = "commit" /\ tx_result.res = "err") =>
        /\ txs[tx_result.t].state = "active"
        /\ txs[tx_result.t].tid = tx_result.tid
        /\ DOMAIN txs[tx_result.t].locks = DOMAIN tx_result.orig

\* ------------------------------------------------------ claims on SpecTxRead
\* C16: after write(id, D) with D a full page and no commit, the same
\* transaction's read(id) returns D, after the first and after every later
\* write to id.
C16_ReadOwnWrite ==
    (tx_call.op = "read" /\ tx_call.page_id \in DOMAIN tx_wrote[tx_call.t]) =>
        tx_call.data = tx_wrote[tx_call.t][tx_call.page_id]

\* A transaction reads a page it has written twice, with different data, and
\* gets the second.
C16_Witness ==
    /\ tx_call.op = "read"
    /\ tx_call.page_id \in DOMAIN tx_wrote[tx_call.t]
    /\ writes_done[tx_call.t] = 2
    /\ Cardinality(DOMAIN tx_wrote[tx_call.t]) = 1
    /\ tx_call.data = tx_wrote[tx_call.t][tx_call.page_id]
    /\ tx_call.data # txs[tx_call.t].orig[tx_call.page_id]
    /\ tm_wal[1].diff # <<0>>

TrunkAndItems(h, pgs) ==
    IF h.freelist_trunk = NoneNum THEN {}
    ELSE {h.freelist_trunk}
            \cup ({pgs[h.freelist_trunk].items[i] : i \in 1 .. ItemsLen}
                     \ {NoneNum})

\* C19: alloc_page(tid) always returns; without an error it returns a page
\* taken from the freelist when the freelist is not empty, Some(num_pages)
\* with num_pages incremented when the freelist is empty and
\* num_pages < MAX_NUM_PAGES, and None otherwise.
C19_AllocPageReturns ==
    alloc_result.op = "alloc_page" =>
        /\ alloc_result.res # "blocked"
        /\ alloc_result.res \in {"some", "none"} =>
              IF alloc_before.header.freelist_trunk # NoneNum
              THEN /\ alloc_result.res = "some"
                   /\ alloc_result.page
                         \in TrunkAndItems(alloc_before.header,
                                           alloc_before.pages)
                   /\ header.num_pages = alloc_before.header.num_pages
              ELSE IF alloc_before.header.num_pages < MAX_NUM_PAGES
              THEN /\ alloc_result.res = "some"
                   /\ alloc_result.page = alloc_before.header.num_pages
                   /\ header.num_pages = alloc_before.header.num_pages + 1
                   /\ header.freelist_trunk = NoneNum
              ELSE /\ alloc_result.res = "none"
                   /\ header = alloc_before.header

\* C20: free_page(tid, page_num) that returns Ok has either appended page_num
\* to the items of the current trunk, which existed and had room, and left
\* the header's freelist_trunk and page page_num as they were; or it has made
\* page_num the new trunk with next = the old trunk and length 0.  Nothing
\* else has changed.
C20_FreePageOneOfTwo ==
    (alloc_result.op = "free_page" /\ alloc_result.res = "ok") =>
        LET page_num == alloc_result.page
            old_trunk == alloc_before.header.freelist_trunk
            old_pages == alloc_before.pages
        IN  IF old_trunk # NoneNum /\ old_pages[old_trunk].length < ItemsLen
            THEN /\ header = alloc_before.header
                 /\ fl_pages =
                       [old_pages EXCEPT ![old_trunk] =
                           FreelistPage(@.next, @.length + 1,
                                        [@.items EXCEPT
                                            ![@.length + 1] = page_num])]
            ELSE /\ header = HeaderPage(alloc_before.header.num_pages,
                                        page_num)
                 /\ fl_pages =
                       [old_pages EXCEPT ![page_num] =
                           FreelistPage(old_trunk, 0, EmptyItems)]

\* The trunks from trunk on, following next for at most n steps.
RECURSIVE TrunkChain(_, _)
TrunkChain(trunk, n) ==
    IF trunk = NoneNum \/ n = 0 THEN <<>>
    ELSE <<trunk>> \o TrunkChain(fl_pages[trunk].next, n - 1)

\* The chain from the header's freelist_trunk; one step more than there are
\* pages, so that a cycle shows as a repeated trunk.
Trunks == TrunkChain(header.freelist_trunk, MAX_NUM_PAGES)

\* How often page_num occurs in the freelist, as a trunk of the chain or as
\* one of the first `length` items of a trunk of the chain.
Occurrences(page_num) ==
    Cardinality({i \in DOMAIN Trunks : Trunks[i] = page_num})
    + Cardinality({<<i, k>> \in (DOMAIN Trunks) \X (1 .. ItemsLen) :
                      /\ k <= fl_pages[Trunks[i]].length
                      /\ fl_pages[Trunks[i]].items[k] = page_num})

\* C21: when only pages in use are freed, every page number occurs at most
\* once in the freelist, the trunk chain from the header ends in None without
\* repeating a trunk, and alloc_page returns no page that is in use.
C21_FreelistDisjoint ==
    /\ \A page_num \in UserPages : Occurrences(page_num) <= 1
    /\ Len(Trunks) < MAX_NUM_PAGES
    /\ (alloc_result.op = "alloc_page" /\ alloc_result.res = "some") =>
          alloc_result.page \notin alloc_before.out

\* C25: when alloc_page or free_page has returned, with Ok(Some), Ok(None) or
\* an error, alloc_lock is not held.
C25_LockReleased ==
    (alloc_result.op \in {"alloc_page", "free_page"}
        /\ alloc_result.res # "blocked") => ~alloc_lock

\* -------------------------------------------- claims on SpecTx, WAL flushes
\* C22: when commit() has returned Ok or cancel() has ended, the Commit or
\* Cancel record is the last record of the WAL and flush() has made it
\* durable; after a write() its Write record is appended and not flushed.
C22_EndFlushesWriteDoesNot ==
    /\ (tx_result.op = "commit" /\ tx_result.res = "ok") =>
          /\ tm_wal[Len(tm_wal)].kind = "Commit"
          /\ wal_flushed = Len(tm_wal)
    /\ tx_result.op = "cancel" =>
          /\ tm_wal[Len(tm_wal)].kind = "Cancel"
          /\ wal_flushed = Len(tm_wal)
    /\ tx_result.op = "write" =>
          /\ tm_wal[Len(tm_wal)].kind = "Write"
          /\ wal_flushed < Len(tm_wal)

\* ----------------------------------------------- claims on SpecTx, locks
\* The frames the thread that holds the cache's state mutex waits for: the
\* victim's or the new frame in access(), the held dirty frames in flush().
AwaitedFrames ==
    IF waiting.kind = "none" THEN {}
    ELSE IF waiting.kind = "flush"
    THEN {map[p] : p \in dirty} \cap LockedFrames
    ELSE {waiting.index} \cap LockedFrames

\* C24: no thread inside access() or flush() holds the state mutex while it
\* waits for a frame whose write guard is held by a live transaction that
\* cannot go on without the state mutex; the transaction of the waiting
\* thread itself is such a transaction, its call being the one that waits.
C24_NoDeadlock ==
    \A t \in Txs :
        (txs[t].state = "active"
            /\ AwaitedFrames
                  \cap {txs[t].locks[p] : p \in DOMAIN txs[t].locks} # {})
        => t # waiting.t

\* ------------------------------------------------- claims on SpecCacheRace
\* C23: the guard a thread obtains from read_page(id) or write_page(id)
\* covers the frame that holds page id's bytes when the guard is obtained,
\* under every interleaving with the accesses of other threads.
C23_GuardCoversPage ==
    \A t \in Threads :
        cthreads[t].pc = "guarded" =>
            cthreads[t].covered = cthreads[t].page_id

\* ---------------------------------------------------- claims on SpecTxFail
\* C27: when write(page_id, data) has returned an error, no Write record of
\* that call is in the WAL (the transaction has as many Write records as
\* write() calls that returned Ok) and the page holds the bytes it held
\* before the call.
C27_WriteAllOrNothing ==
    (tx_result.op = "write" /\ tx_result.res = "err") =>
        /\ Cardinality(WritesOf(tx_result.tid)) = writes_done[tx_result.t]
        /\ \A page_id \in DOMAIN tx_result.orig :
              PageContent(page_id) = tx_result.orig[page_id]

====
